---- MODULE Spec2Model ----
(***************************************************************************)
(* Stencil upload of the GLES framebuffer manager                          *)
(* (GPU/GLES/StencilBufferGLES.cpp): the three stencil-bit scanners and    *)
(* FramebufferManagerGLES::NotifyStencilUpload, with the GL state, the     *)
(* render targets and the command stream the call acts on.                 *)
(*                                                                         *)
(* Numbers are unsigned integers of the width the code gives them.  A      *)
(* normalized float x in [0,1] that stands for e/255 is carried as its     *)
(* numerator e; every product and quotient the shader forms stays clear    *)
(* of an integer boundary by more than float32 rounding, so the integer    *)
(* arithmetic below gives the floors the GPU gives.                        *)
(***************************************************************************)
EXTENDS Integers, Sequences, FiniteSets, TLC

\* Largest render scale (renderWidth = scale * bufferWidth).
MaxScale == 2
\* Framebuffer row length in pairs of pixels (fb_stride = bufferWidth = 2 * BufferPairs).
BufferPairs == 1
\* Longest buffer, in pixels, handed to the scanners on their own.
MaxScanPixels == 4

NULL == "null"
None == [path |-> "none"]

GE_FORMAT_565 == "565"
GE_FORMAT_5551 == "5551"
GE_FORMAT_4444 == "4444"
GE_FORMAT_8888 == "8888"
Formats == {GE_FORMAT_565, GE_FORMAT_5551, GE_FORMAT_4444, GE_FORMAT_8888}

----------------------------------------------------------------------------
(* Unsigned bit operations. *)

RECURSIVE BitOr(_, _)
BitOr(a, b) ==
    IF a = 0 THEN b
    ELSE IF b = 0 THEN a
    ELSE (IF a % 2 = 1 \/ b % 2 = 1 THEN 1 ELSE 0) + 2 * BitOr(a \div 2, b \div 2)

RECURSIVE BitAnd(_, _)
BitAnd(a, b) ==
    IF a = 0 \/ b = 0 THEN 0
    ELSE (IF a % 2 = 1 /\ b % 2 = 1 THEN 1 ELSE 0) + 2 * BitAnd(a \div 2, b \div 2)

\* a & ~b on the 8-bit stencil byte
BitClear8(a, b) == a - BitAnd(a, b)

----------------------------------------------------------------------------
(* Source memory: a sequence of 16-bit units, little-endian as the PSP     *)
(* stores them: one per pixel for 565/5551/4444, two per pixel (low half   *)
(* first) for 8888.  A u32 is the pair <<low half, high half>>.            *)

\* ((const u32 *)ptr8)[i]
Word(src, i) == <<src[2 * i + 1], src[2 * i + 2]>>

Or32(a, b) == <<BitOr(a[1], b[1]), BitOr(a[2], b[2])>>
And32(a, b) == <<BitAnd(a[1], b[1]), BitAnd(a[2], b[2])>>

RECURSIVE Pow2(_)
Pow2(n) == IF n = 0 THEN 1 ELSE 2 * Pow2(n - 1)

\* a >> n for 1 <= n <= 31, as a number
Shr32(a, n) ==
    IF n < 16 THEN a[2] * Pow2(16 - n) + a[1] \div Pow2(n)
    ELSE a[2] \div Pow2(n - 16)

\* bits |= ptr[i] for i in 0..n-1, from bits = 0
RECURSIVE OrWords(_, _)
OrWords(src, n) ==
    IF n = 0 THEN <<0, 0>> ELSE Or32(OrWords(src, n - 1), Word(src, n - 1))

\* 0x80008000
StencilMask5551 == <<32768, 32768>>

StencilBits5551(src, numPixels) ==
    IF \E i \in 0..(numPixels \div 2 - 1) : And32(Word(src, i), StencilMask5551) # <<0, 0>>
    THEN 1 ELSE 0

\* StencilBits4444 that forgets the high pixel of each word
StencilBits4444LowPixelOnly(src, numPixels) ==
    LET bits == OrWords(src, numPixels \div 2)
    IN  BitAnd(Shr32(bits, 12), 15) % 256

StencilBits4444(src, numPixels) ==
    LET bits == OrWords(src, numPixels \div 2)
    IN  BitOr(BitAnd(Shr32(bits, 12), 15), Shr32(bits, 28)) % 256

StencilBits8888(src, numPixels) ==
    LET bits == OrWords(src, numPixels)
    IN  Shr32(bits, 24) % 256

\* Pixel j of a buffer: a u32 for 8888, a u16 otherwise.
PixelAt(format, src, j) ==
    IF format = GE_FORMAT_8888 THEN Word(src, j) ELSE src[j + 1]

----------------------------------------------------------------------------
(* The sampling texture and the reconstruction shader. *)

\* MakePixelTexture: the source pixel converted to RGBA8888; the alpha the
\* sampler returns, as a numerator over 255.
TexAlpha(format, px) ==
    CASE format = GE_FORMAT_8888 -> px[2] \div 256
      [] format = GE_FORMAT_4444 -> 17 * (px \div 4096)
      [] format = GE_FORMAT_5551 -> 255 * (px \div 32768)
      [] OTHER -> 255

\* roundAndScaleTo255f(x) = floor(x * 255.99), x = n / 255
RoundAndScaleTo255f(n) == (n * 25599) \div 25500

\* u_stencilValue for plane i, as a numerator over 255
StencilValue(format, i) ==
    CASE format = GE_FORMAT_4444 -> i * 16
      [] format = GE_FORMAT_5551 -> i * 128
      [] OTHER -> i

\* main() of stencil_fs: TRUE when the fragment is not discarded.
\*   shifted = roundAndScaleTo255f(index.a) / roundAndScaleTo255f(u_stencilValue)
\*   if (mod(floor(shifted), 2.0) < 0.99) discard;
StencilFsKeeps(a, stencilValue) ==
    LET floorShifted == RoundAndScaleTo255f(a) \div RoundAndScaleTo255f(stencilValue)
    IN  ~(floorShifted % 2 < 1)

\* glstate.stencilMask.set(...) inside the plane loop
PlaneStencilMask(format, i) ==
    CASE format = GE_FORMAT_4444 -> BitOr(i * 16, i)
      [] format = GE_FORMAT_5551 -> 255
      [] OTHER -> i

----------------------------------------------------------------------------
(* OpenGL semantics of the commands the call issues.  A surface is a       *)
(* render target: a stencil byte, an alpha byte and an RGB value per pixel.*)

Pix(w, h) == (0..(w - 1)) \X (0..(h - 1))

NewSurface(w, h) ==
    [w |-> w, h |-> h,
     stencil |-> [p \in Pix(w, h) |-> 0],
     alpha |-> [p \in Pix(w, h) |-> 0],
     rgb |-> [p \in Pix(w, h) |-> "initial"]]

\* The scissor box the caller's draw state carries: the left column.
InScissor(gl, p) == ~gl.scissorTest \/ p[1] = 0

DefaultGLState ==
    [scissorTest |-> FALSE,
     colorMask |-> [rgb |-> TRUE, a |-> TRUE],
     stencilTest |-> FALSE,
     stencilOp |-> "KEEP",
     stencilFunc |-> "ALWAYS",
     stencilRef |-> 0,
     stencilMask |-> 255]

\* Draw states the game's rendering leaves in the GL state cache.
GameState ==
    [DefaultGLState EXCEPT !.stencilTest = TRUE, !.stencilOp = "REPLACE", !.stencilRef = 255]
MaskedGameState ==
    [GameState EXCEPT !.stencilMask = 15, !.scissorTest = TRUE,
                      !.colorMask = [rgb |-> TRUE, a |-> FALSE]]

\* glClear(bits) with clear color (0,0,0,0) and clear stencil 0: honours the
\* scissor test, the color mask and the stencil write mask.
GlClear(s, gl, stencilBit, colorBit) ==
    [s EXCEPT
       !.stencil = [p \in DOMAIN s.stencil |->
                      IF stencilBit /\ InScissor(gl, p)
                      THEN BitClear8(s.stencil[p], gl.stencilMask) ELSE s.stencil[p]],
       !.alpha = [p \in DOMAIN s.alpha |->
                      IF colorBit /\ InScissor(gl, p) /\ gl.colorMask.a
                      THEN 0 ELSE s.alpha[p]],
       !.rgb = [p \in DOMAIN s.rgb |->
                      IF colorBit /\ InScissor(gl, p) /\ gl.colorMask.rgb
                      THEN "cleared" ELSE s.rgb[p]]]

\* The stencil byte after a fragment passes: glStencilOp(REPLACE, ...) writes
\* the reference value under the write mask.
StencilWrite(old, gl) ==
    IF gl.stencilTest /\ gl.stencilOp = "REPLACE"
    THEN BitOr(BitClear8(old, gl.stencilMask), BitAnd(gl.stencilRef, gl.stencilMask))
    ELSE old

\* A quad over the viewport (w, h): keeps[p] says whether the fragment at p
\* survives the fragment shader, fragAlpha[p] is gl_FragColor.a * 255.
GlDrawQuad(s, gl, w, h, keeps, fragAlpha) ==
    LET hit(p) == p[1] < w /\ p[2] < h /\ InScissor(gl, p) /\ keeps[p]
    IN  [s EXCEPT
          !.stencil = [p \in DOMAIN s.stencil |->
                         IF hit(p) THEN StencilWrite(s.stencil[p], gl) ELSE s.stencil[p]],
          !.alpha = [p \in DOMAIN s.alpha |->
                         IF hit(p) /\ gl.colorMask.a THEN fragAlpha[p] ELSE s.alpha[p]],
          !.rgb = [p \in DOMAIN s.rgb |->
                         IF hit(p) /\ gl.colorMask.rgb THEN "drawn" ELSE s.rgb[p]]]

\* Nearest-neighbour lookup: the source pixel a destination pixel p of a
\* dw x dh rectangle takes from a sw x sh rectangle.
Nearest(p, sw, sh, dw, dh) == <<(p[1] * sw) \div dw, (p[2] * sh) \div dh>>

\* draw_->BlitFramebuffer(src, 0, 0, sw, sh, dst, 0, 0, dw, dh, FB_STENCIL_BIT, FB_BLIT_NEAREST)
BlitStencilNearest(src, sw, sh, dst, dw, dh) ==
    [dst EXCEPT
       !.stencil = [p \in DOMAIN dst.stencil |->
                      IF p[1] < dw /\ p[2] < dh
                      THEN src.stencil[Nearest(p, sw, sh, dw, dh)] ELSE dst.stencil[p]]]

----------------------------------------------------------------------------
(* State. *)

VARIABLES
    vfbs_,                  \* the tracked framebuffers (VirtualFramebuffer records)
    currentRenderVfb_,      \* index in vfbs_ of the framebuffer the caller renders to
    supportsBlit,           \* gstate_c.Supports(ARB_FRAMEBUFFER_BLIT | NV_FRAMEBUFFER_BLIT)
    mem,                    \* the pixels at the destination's address
    glstate,                \* the cached GL state
    curProgram,             \* the program glsl_bind made current
    stencilUploadProgram_,  \* the reconstruction shader, NULL until compiled
    boundFbo,               \* the render target bound
    surfaces,               \* contents of every render target
    cmds,                   \* the GL commands of the last NotifyStencilUpload
    lastCall,               \* inputs and outcome of the call just returned, or None
    scanFormat, scanSrc,    \* a buffer of its own for the scanners: format, pixels
    scanBits                \* <<result>> of the scanner on it, <<>> before the run

vars == <<vfbs_, currentRenderVfb_, supportsBlit, mem, glstate, curProgram,
          stencilUploadProgram_, boundFbo, surfaces, cmds, lastCall,
          scanFormat, scanSrc, scanBits>>

scanVars == <<scanFormat, scanSrc, scanBits>>

\* Pixel values the game writes, per format: one stencil plane set (low),
\* several planes set over color bits (high), color bits alone (color).
PixelSamples(format) ==
    CASE format = GE_FORMAT_8888 ->
           [low |-> <<0, 8192>>, high |-> <<65535, 42495>>, color |-> <<65535, 255>>,
            zero |-> <<0, 0>>]
      [] format = GE_FORMAT_4444 ->
           [low |-> 12288, high |-> 49443, color |-> 4095, zero |-> 0]
      [] OTHER ->
           [low |-> 32768, high |-> 65535, color |-> 32767, zero |-> 0]

\* Buffer contents the game produces, as pixel sequences of length n: fresh
\* memory, color without stencil, a mix of planes, a single stencil pixel at
\* the end, a single stencil pixel at the start.
BufferSamples(format, n) ==
    LET px == PixelSamples(format)
    IN  {[j \in 1..n |-> px.zero],
         [j \in 1..n |-> px.color],
         [j \in 1..n |-> IF j % 2 = 1 THEN px.low ELSE px.high],
         [j \in 1..n |-> IF j = n THEN px.low ELSE px.color],
         [j \in 1..n |-> IF j = 1 THEN px.high ELSE px.zero]}

\* Addresses a stencil upload may name.  offset: where in the address space;
\* mirror: the cache/kernel bits above it.
FbAddress == [offset |-> "vram_dst", mirror |-> "valid"]
Addresses ==
    {FbAddress, [offset |-> "vram_dst", mirror |-> "invalid"],
     [offset |-> "vram_free", mirror |-> "valid"], [offset |-> "ram", mirror |-> "valid"]}

MayIntersectFramebuffer(addr) == addr.offset # "ram"
MaskedEqual(a, b) == a.offset = b.offset
\* Memory::GetPointer(addr) != nullptr
GetPointerValid(addr) == addr.mirror = "valid"

MakeVfb(address, format, pairs, scale, fbo) ==
    [fb_address |-> address, format |-> format,
     fb_stride |-> 2 * pairs, bufferWidth |-> 2 * pairs, bufferHeight |-> 1,
     renderWidth |-> 2 * pairs * scale, renderHeight |-> scale,
     fbo |-> fbo]

\* The surface a framebuffer renders to: its FBO, or the backbuffer when
\* rendering is not buffered and no FBO exists.
TargetOf(vfb) == IF vfb.fbo # NULL THEN vfb.fbo ELSE "backbuffer"

NumPixels(vfb) == vfb.fb_stride * vfb.bufferHeight

\* 16-bit units per pixel
UnitsPerPixel(format) == IF format = GE_FORMAT_8888 THEN 2 ELSE 1

\* The 16-bit units of a sequence of pixels
StorePixels(format, pixels) ==
    IF format = GE_FORMAT_8888
    THEN [u \in 1..(2 * Len(pixels)) |-> pixels[(u + 1) \div 2][2 - (u % 2)]]
    ELSE pixels

\* The emulator once the framebuffers exist: fresh memory, cleared targets,
\* no reconstruction shader yet, the game's draw state in the GL cache.
InitEmulator(format, scale, buffered, blit) ==
    LET dst == MakeVfb(FbAddress, format, BufferPairs, scale,
                       IF buffered THEN "fbo_dst" ELSE NULL)
        other == MakeVfb([offset |-> "vram_other", mirror |-> "valid"], GE_FORMAT_8888,
                         BufferPairs, 1, IF buffered THEN "fbo_other" ELSE NULL)
    IN  /\ vfbs_ = <<other, dst>>
        /\ currentRenderVfb_ = 2
        /\ supportsBlit = blit
        /\ mem = [i \in 1..(NumPixels(dst) * UnitsPerPixel(format)) |-> 0]
        /\ glstate = MaskedGameState
        /\ curProgram = NULL
        /\ stencilUploadProgram_ = NULL
        /\ boundFbo = TargetOf(dst)
        /\ surfaces =
             IF buffered
             THEN ("fbo_dst" :> NewSurface(dst.renderWidth, dst.renderHeight))
                  @@ ("fbo_other" :> NewSurface(1, 1))
                  @@ ("temp" :> NewSurface(dst.bufferWidth, dst.bufferHeight))
             ELSE ("backbuffer" :> NewSurface(dst.renderWidth, dst.renderHeight))
        /\ cmds = <<>>
        /\ lastCall = None

Init ==
    /\ \E format \in Formats, scale \in 1..MaxScale, buffered \in BOOLEAN, blit \in BOOLEAN :
          InitEmulator(format, scale, buffered, blit)
    /\ scanFormat = GE_FORMAT_565
    /\ scanSrc = <<>>
    /\ scanBits = <<>>

----------------------------------------------------------------------------
(* FramebufferManagerGLES::NotifyStencilUpload *)

\* The loop over vfbs_: the last framebuffer whose address matches, 0 for none.
FindDstBuffer(addr) ==
    LET hits == {i \in DOMAIN vfbs_ : MaskedEqual(vfbs_[i].fb_address, addr)}
    IN  IF hits = {} THEN 0 ELSE CHOOSE i \in hits : \A j \in hits : j <= i

\* The switch on dstBuffer->format: usedBits.
UsedBits(dstBuffer, src) ==
    CASE dstBuffer.format = GE_FORMAT_5551 -> StencilBits5551(src, NumPixels(dstBuffer))
      [] dstBuffer.format = GE_FORMAT_4444 -> StencilBits4444(src, NumPixels(dstBuffer))
      [] dstBuffer.format = GE_FORMAT_8888 -> StencilBits8888(src, NumPixels(dstBuffer))
      [] OTHER -> 0

\* The switch on dstBuffer->format: values.
ValueCount(format) ==
    CASE format = GE_FORMAT_5551 -> 2
      [] format = GE_FORMAT_4444 -> 16
      [] format = GE_FORMAT_8888 -> 256
      [] OTHER -> 0

\* DisableState(): the draw state that would get in the way is switched off
\* and the write masks are opened.
DisableState(gl) ==
    [gl EXCEPT !.scissorTest = FALSE, !.stencilTest = FALSE,
               !.colorMask = [rgb |-> TRUE, a |-> TRUE], !.stencilMask = 255]

\* glstate.colorMask.set(GL_FALSE, GL_FALSE, GL_FALSE, GL_TRUE)
AlphaOnly == [rgb |-> FALSE, a |-> TRUE]

\* The GL state the draw path sets up before it binds a target (lines 168-171).
DrawPathState(gl) ==
    [DisableState(gl) EXCEPT !.colorMask = AlphaOnly, !.stencilTest = TRUE,
                             !.stencilOp = "REPLACE"]

\* useBlit without the comparison of the widths
UseBlitIgnoringWidth(dstBuffer) ==
    supportsBlit /\ dstBuffer.fbo # NULL

\* useBlit after line 179
UseBlit(dstBuffer) ==
    supportsBlit /\ ~(dstBuffer.bufferWidth = dstBuffer.renderWidth \/ dstBuffer.fbo = NULL)

\* The target the draw path renders into (lines 183-189).
DrawTarget(dstBuffer) ==
    IF UseBlit(dstBuffer) THEN "temp"
    ELSE IF dstBuffer.fbo # NULL THEN dstBuffer.fbo
    ELSE boundFbo

\* The 8888 texel MakePixelTexture made of the source pixel under fragment p
\* of a w x h viewport (nearest filtering: linearFilter is false).
TexelAlpha(dstBuffer, src, p, w, h) ==
    LET t == Nearest(p, dstBuffer.bufferWidth, dstBuffer.bufferHeight, w, h)
    IN  TexAlpha(dstBuffer.format,
                 PixelAt(dstBuffer.format, src, t[2] * dstBuffer.fb_stride + t[1]))

\* DrawActiveTexture with the program that is current: the reconstruction
\* shader discards by stencil_fs; with no program nothing is drawn; any other
\* program left bound keeps every fragment.
FragmentKept(program, a, stencilValue) ==
    CASE program = NULL -> FALSE
      [] program = "stencilUploadProgram" -> StencilFsKeeps(a, stencilValue)
      [] OTHER -> TRUE

\* The iteration without the usedBits filter: every plane is drawn.
DrawPlaneUnfiltered(dstBuffer, src, program, usedBits, w, h, i, st) ==
    LET gl == [st.gl EXCEPT !.stencilMask = PlaneStencilMask(dstBuffer.format, i)]
        value == StencilValue(dstBuffer.format, i)
        alphaAt == [p \in DOMAIN st.s.stencil |-> TexelAlpha(dstBuffer, src, p, w, h)]
        keeps == [p \in DOMAIN st.s.stencil |-> FragmentKept(program, alphaAt[p], value)]
    IN  [s |-> GlDrawQuad(st.s, gl, w, h, keeps, alphaAt),
         gl |-> gl,
         log |-> Append(st.log, [op |-> "DrawActiveTexture", plane |-> i,
                                 stencilMask |-> gl.stencilMask,
                                 u_stencilValue |-> value])]

\* One iteration of the plane loop (lines 204-218) on st = [s, gl, log].
DrawPlane(dstBuffer, src, program, usedBits, w, h, i, st) ==
    IF BitAnd(usedBits, i) = 0
    THEN st
    ELSE LET gl == [st.gl EXCEPT !.stencilMask = PlaneStencilMask(dstBuffer.format, i)]
             value == StencilValue(dstBuffer.format, i)
             alphaAt == [p \in DOMAIN st.s.stencil |-> TexelAlpha(dstBuffer, src, p, w, h)]
             keeps == [p \in DOMAIN st.s.stencil |-> FragmentKept(program, alphaAt[p], value)]
         IN  [s |-> GlDrawQuad(st.s, gl, w, h, keeps, alphaAt),
              gl |-> gl,
              log |-> Append(st.log, [op |-> "DrawActiveTexture", plane |-> i,
                                      stencilMask |-> gl.stencilMask,
                                      u_stencilValue |-> value])]

\* for (int i = 1; i < values; i += i)
RECURSIVE PlaneLoop(_, _, _, _, _, _, _, _, _)
PlaneLoop(dstBuffer, src, program, usedBits, values, w, h, i, st) ==
    IF ~(i < values) THEN st
    ELSE PlaneLoop(dstBuffer, src, program, usedBits, values, w, h, i + i,
                   DrawPlane(dstBuffer, src, program, usedBits, w, h, i, st))

\* A blit that does not stretch: the destination rectangle at storage size.
BlitDstSizeStorage(dstBuffer) == <<dstBuffer.bufferWidth, dstBuffer.bufferHeight>>

\* The destination rectangle of the blit (line 223).
BlitDstSize(dstBuffer) == <<dstBuffer.renderWidth, dstBuffer.renderHeight>>

\* The write mask of the last plane drawn, left as it is.
KeepStencilMask(gl) == gl.stencilMask

\* The stencil write mask left when the loop is over (line 220).
FinalStencilMask(gl) == 255

\* RebindFramebuffer(): the caller's render target is bound again.
RebindFramebuffer == TargetOf(vfbs_[currentRenderVfb_])

CallRecord(path, ret) == [path |-> path, ret |-> ret]

\* A return false that comes after the clear path's state setup.
ReturnFalseAfterStateSetup(path) ==
    /\ lastCall' = CallRecord(path, FALSE)
    /\ cmds' = <<>>
    /\ glstate' = [glstate EXCEPT !.scissorTest = FALSE, !.colorMask = AlphaOnly]
    /\ UNCHANGED <<vfbs_, currentRenderVfb_, supportsBlit, mem, curProgram, stencilUploadProgram_, boundFbo, surfaces, scanVars>>

\* return false before anything was touched
ReturnFalse(path) ==
    /\ lastCall' = CallRecord(path, FALSE)
    /\ cmds' = <<>>
    /\ UNCHANGED <<vfbs_, currentRenderVfb_, supportsBlit, mem, glstate, curProgram, stencilUploadProgram_, boundFbo, surfaces, scanVars>>

\* usedBits == 0 and !skipZero (lines 142-148)
ClearPath ==
    LET gl == [glstate EXCEPT !.scissorTest = FALSE, !.colorMask = AlphaOnly]
    IN  /\ glstate' = gl
        /\ surfaces' = [surfaces EXCEPT ![boundFbo] = GlClear(@, gl, TRUE, TRUE)]
        /\ cmds' = <<[op |-> "glClear", bits |-> "STENCIL|COLOR"]>>
        /\ lastCall' = CallRecord("clear", TRUE)
        /\ UNCHANGED <<vfbs_, currentRenderVfb_, supportsBlit, mem, curProgram,
                       stencilUploadProgram_, boundFbo, scanVars>>

\* usedBits != 0 (lines 151-227)
DrawPath(dstBuffer, usedBits, compileOk) ==
    LET compiled == IF stencilUploadProgram_ # NULL THEN stencilUploadProgram_
                    ELSE IF compileOk THEN "stencilUploadProgram" ELSE NULL
        program == IF compiled # NULL THEN compiled ELSE curProgram
        logProgram == (IF stencilUploadProgram_ = NULL
                       THEN <<[op |-> "glsl_create_source", ok |-> compileOk]>> ELSE <<>>)
                      \o (IF compiled # NULL THEN <<[op |-> "glsl_bind"]>> ELSE <<>>)
        gl0 == DrawPathState(glstate)
        useBlit == UseBlit(dstBuffer)
        w == IF useBlit THEN dstBuffer.bufferWidth ELSE dstBuffer.renderWidth
        h == IF useBlit THEN dstBuffer.bufferHeight ELSE dstBuffer.renderHeight
        target == DrawTarget(dstBuffer)
        logBind == (IF useBlit \/ dstBuffer.fbo # NULL
                    THEN <<[op |-> "BindFramebufferAsRenderTarget", fbo |-> target]>>
                    ELSE <<>>)
                   \o <<[op |-> "glViewport", w |-> w, h |-> h],
                        [op |-> "glClear", bits |-> "STENCIL"]>>
        cleared == GlClear(surfaces[target], gl0, TRUE, FALSE)
        gl1 == [gl0 EXCEPT !.stencilFunc = "ALWAYS", !.stencilRef = 255]
        looped == PlaneLoop(dstBuffer, mem, program, usedBits,
                            ValueCount(dstBuffer.format), w, h, 1,
                            [s |-> cleared, gl |-> gl1, log |-> logProgram \o logBind])
        gl2 == [looped.gl EXCEPT !.stencilMask = FinalStencilMask(looped.gl)]
        \* the color planes of the scratch target are never read: not kept
        drawn == [surfaces EXCEPT
                    ![target] = IF useBlit
                                THEN [NewSurface(w, h) EXCEPT !.stencil = looped.s.stencil]
                                ELSE looped.s]
        logBlit == IF useBlit
                   THEN <<[op |-> "BlitFramebuffer", src |-> target, sw |-> w, sh |-> h,
                           dst |-> dstBuffer.fbo, dw |-> BlitDstSize(dstBuffer)[1],
                           dh |-> BlitDstSize(dstBuffer)[2]]>>
                   ELSE <<>>
    IN  /\ stencilUploadProgram_' = compiled
        /\ curProgram' = program
        /\ glstate' = gl2
        /\ surfaces' =
             IF useBlit
             THEN [drawn EXCEPT ![dstBuffer.fbo] =
                     BlitStencilNearest(looped.s, w, h, @,
                                        BlitDstSize(dstBuffer)[1], BlitDstSize(dstBuffer)[2])]
             ELSE drawn
        /\ boundFbo' = RebindFramebuffer
        /\ cmds' = looped.log \o logBlit \o <<[op |-> "RebindFramebuffer"]>>
        /\ lastCall' = CallRecord("draw", TRUE) @@
                       [usedBits |-> usedBits, useBlit |-> useBlit, w |-> w, h |-> h,
                        program |-> program, hadProgram |-> stencilUploadProgram_ # NULL]
        /\ UNCHANGED <<vfbs_, currentRenderVfb_, supportsBlit, mem, scanVars>>

NotifyStencilUpload(addr, skipZero, compileOk) ==
    LET i == FindDstBuffer(addr)
        dstBuffer == vfbs_[i]
        usedBits == UsedBits(dstBuffer, mem)
    IN  IF ~MayIntersectFramebuffer(addr) \/ i = 0
          THEN ReturnFalse("no framebuffer")
        ELSE IF ~GetPointerValid(addr)
          THEN ReturnFalse("no pointer")
        ELSE IF dstBuffer.format = GE_FORMAT_565
          THEN ReturnFalse("565")
        ELSE IF usedBits = 0
          THEN IF skipZero THEN ReturnFalse("skip zero") ELSE ClearPath
        ELSE DrawPath(dstBuffer, usedBits, compileOk)

----------------------------------------------------------------------------
(* The rest of the emulator, as far as it touches what the upload reads.   *)

Upload ==
    \E addr \in Addresses, skipZero \in BOOLEAN, compileOk \in BOOLEAN :
        \* glsl_create_source is only called while no shader exists
        /\ stencilUploadProgram_ # NULL => compileOk
        \* skipZero is only read when usedBits is 0
        /\ UsedBits(vfbs_[Len(vfbs_)], mem) # 0 => ~skipZero
        /\ NotifyStencilUpload(addr, skipZero, compileOk)

\* The game rewrites the framebuffer's memory.
WriteMemory ==
    \E pixels \in BufferSamples(vfbs_[Len(vfbs_)].format, NumPixels(vfbs_[Len(vfbs_)])) :
        /\ mem # StorePixels(vfbs_[Len(vfbs_)].format, pixels)
        /\ mem' = StorePixels(vfbs_[Len(vfbs_)].format, pixels)
        /\ lastCall' = None
        /\ cmds' = <<>>
        /\ UNCHANGED <<vfbs_, currentRenderVfb_, supportsBlit, glstate, curProgram,
                       stencilUploadProgram_, boundFbo, surfaces, scanVars>>

\* The game draws a full-screen quad into the destination framebuffer with a
\* program of its own, setting every stencil and alpha byte, and goes on to
\* its next draw state: scissored, with part of the stencil byte and the
\* alpha channel write-protected.
GameDraw ==
    LET s == surfaces[boundFbo]
        all == [p \in DOMAIN s.stencil |-> TRUE]
        opaque == [p \in DOMAIN s.stencil |-> 255]
    IN  /\ currentRenderVfb_ = Len(vfbs_)
        /\ glstate' = MaskedGameState
        /\ surfaces' = [surfaces EXCEPT
                          ![boundFbo] = GlDrawQuad(s, GameState, s.w, s.h, all, opaque)]
        /\ curProgram' = "draw2dprogram"
        /\ lastCall' = None
        /\ cmds' = <<>>
        /\ UNCHANGED <<vfbs_, currentRenderVfb_, supportsBlit, mem,
                       stencilUploadProgram_, boundFbo, scanVars>>

\* The game switches to another framebuffer (buffered rendering only).
SetRenderFrameBuffer ==
    \E v \in DOMAIN vfbs_ :
        /\ v # currentRenderVfb_
        /\ vfbs_[v].fbo # NULL
        /\ currentRenderVfb_' = v
        /\ boundFbo' = TargetOf(vfbs_[v])
        /\ lastCall' = None
        /\ cmds' = <<>>
        /\ UNCHANGED <<vfbs_, supportsBlit, mem, glstate, curProgram,
                       stencilUploadProgram_, surfaces, scanVars>>

Next == Upload \/ WriteMemory \/ GameDraw \/ SetRenderFrameBuffer

Spec == Init /\ [][Next]_vars

----------------------------------------------------------------------------
(* The scanners on buffers of their own: any length up to MaxScanPixels,   *)
(* any mix of the pixel values below.                                      *)

ScanPixels(format) ==
    CASE format = GE_FORMAT_8888 ->
           {<<0, 0>>, <<65535, 255>>, <<0, 8192>>, <<0, 256>>, <<65535, 42495>>, <<0, 32768>>}
      [] format = GE_FORMAT_4444 -> {0, 4095, 12288, 49152, 4096, 36863}
      [] OTHER -> {0, 32767, 32768, 65535}

ScanInit ==
    /\ InitEmulator(GE_FORMAT_565, 1, FALSE, FALSE)
    /\ scanFormat \in {GE_FORMAT_5551, GE_FORMAT_4444, GE_FORMAT_8888}
    /\ scanSrc = <<>>
    /\ scanBits = <<>>

\* One more pixel in the buffer.
ScanStore ==
    /\ Len(scanSrc) < MaxScanPixels
    /\ \E px \in ScanPixels(scanFormat) : scanSrc' = Append(scanSrc, px)
    /\ scanBits' = <<>>
    /\ UNCHANGED <<vfbs_, currentRenderVfb_, supportsBlit, mem, glstate, curProgram,
                   stencilUploadProgram_, boundFbo, surfaces, cmds, lastCall, scanFormat>>

\* StencilBits5551 / StencilBits4444 / StencilBits8888 on the whole buffer.
ScanRun ==
    /\ scanBits = <<>>
    /\ scanBits' =
         LET src == StorePixels(scanFormat, scanSrc)
         IN  CASE scanFormat = GE_FORMAT_5551 -> <<StencilBits5551(src, Len(scanSrc))>>
               [] scanFormat = GE_FORMAT_4444 -> <<StencilBits4444(src, Len(scanSrc))>>
               [] OTHER -> <<StencilBits8888(src, Len(scanSrc))>>
    /\ UNCHANGED <<vfbs_, currentRenderVfb_, supportsBlit, mem, glstate, curProgram,
                   stencilUploadProgram_, boundFbo, surfaces, cmds, lastCall,
                   scanFormat, scanSrc>>

ScanNext == ScanStore \/ ScanRun

SpecScan == ScanInit /\ [][ScanNext]_vars

----------------------------------------------------------------------------
(* What the properties speak of. *)

\* The framebuffer the uploads address.
Dst == vfbs_[Len(vfbs_)]

Bit(x, k) == (x \div Pow2(k)) % 2 = 1

\* The stencil bits a pixel carries: the alpha byte, the alpha nibble, bit 15.
StencilField(format, px) ==
    CASE format = GE_FORMAT_8888 -> px[2] \div 256
      [] format = GE_FORMAT_4444 -> px \div 4096
      [] format = GE_FORMAT_5551 -> px \div 32768
      [] OTHER -> 0

\* Those bits in the host's 8-bit stencil byte.
ExpandTo8(format, bits) ==
    CASE format = GE_FORMAT_8888 -> bits
      [] format = GE_FORMAT_4444 -> bits * 16 + bits
      [] format = GE_FORMAT_5551 -> IF bits = 1 THEN 255 ELSE 0
      [] OTHER -> 0

\* The storage pixel under pixel p of the destination's render target.
StoragePixelOf(p) ==
    <<p[1] \div (Dst.renderWidth \div Dst.bufferWidth),
      p[2] \div (Dst.renderHeight \div Dst.bufferHeight)>>

SrcPixelUnder(p) ==
    PixelAt(Dst.format, mem, StoragePixelOf(p)[2] * Dst.fb_stride + StoragePixelOf(p)[1])

DstStencil(sf) == sf[TargetOf(Dst)].stencil
DstAlpha(sf) == sf[TargetOf(Dst)].alpha
DstRgb(sf) == sf[TargetOf(Dst)].rgb

Ops(log) == [j \in DOMAIN log |-> log[j].op]
Has(log, op) == \E j \in DOMAIN log : log[j].op = op
IsDraw(c) == c.op = "DrawActiveTexture"
Draws(log) == SelectSeq(log, IsDraw)

PopCount(x) == Cardinality({k \in 0..7 : Bit(x, k)})

----------------------------------------------------------------------------
(* C2: for a buffer with an even pixel count the scanner returns exactly   *)
(* the union of the pixels' stencil bits, wherever the pixels lie: bit k   *)
(* of the result is set iff some pixel has bit k of its stencil field set; *)
(* the result fits the field (0..1, 0..15, 0..255) and is 0 iff no pixel   *)
(* has a stencil bit.                                                      *)
C2_ScanIsUnionOfStencilBits ==
    (scanBits # <<>> /\ Len(scanSrc) % 2 = 0) =>
        /\ scanBits[1] \in 0..(ValueCount(scanFormat) - 1)
        /\ \A k \in 0..7 :
              Bit(scanBits[1], k) <=>
                 \E j \in 1..Len(scanSrc) : Bit(StencilField(scanFormat, scanSrc[j]), k)
        /\ scanBits[1] = 0 <=>
              \A j \in 1..Len(scanSrc) : StencilField(scanFormat, scanSrc[j]) = 0

\* A 4444 buffer mixing nibbles 0x3 and 0xC, none 0xF, scanned to 0xF.
C2_Witness ==
    /\ scanFormat = GE_FORMAT_4444
    /\ Len(scanSrc) = 4
    /\ scanBits = <<15>>
    /\ \E j \in 1..Len(scanSrc) : StencilField(scanFormat, scanSrc[j]) = 3
    /\ \E j \in 1..Len(scanSrc) : StencilField(scanFormat, scanSrc[j]) = 12
    /\ \A j \in 1..Len(scanSrc) : StencilField(scanFormat, scanSrc[j]) \in {0, 3, 12}

----------------------------------------------------------------------------
(* C8: after every call that went through the per-plane draw path the      *)
(* stencil write mask is 0xFF and the render target bound is the caller's  *)
(* current one again, on the blit strategy and on the direct one.          *)
C8_MaskAndTargetRestored ==
    lastCall.path = "draw" =>
        /\ glstate.stencilMask = 255
        /\ boundFbo = TargetOf(vfbs_[currentRenderVfb_])

\* A blit-strategy upload while the caller renders to the other framebuffer,
\* whose last plane was drawn under a one-bit write mask.
C8_Witness ==
    /\ lastCall.path = "draw"
    /\ lastCall.useBlit
    /\ currentRenderVfb_ = 1
    /\ boundFbo = "fbo_other"
    /\ Len(Draws(cmds)) > 1
    /\ Draws(cmds)[Len(Draws(cmds))].stencilMask = 128

----------------------------------------------------------------------------
(* C10 as stated: on the draw path the temporary target and the blit are   *)
(* used iff the storage resolution differs from the render resolution and  *)
(* the target has a backing render target.                                 *)
C10_BlitIffUpscaledAndBacked ==
    lastCall.path = "draw" =>
        LET upscaledAndBacked == Dst.bufferWidth # Dst.renderWidth /\ Dst.fbo # NULL
            views == SelectSeq(cmds, LAMBDA c : c.op = "glViewport")
        IN  /\ Has(cmds, "BlitFramebuffer") <=> upscaledAndBacked
            /\ lastCall.useBlit <=> upscaledAndBacked
            /\ \A j \in DOMAIN views :
                  /\ views[j].w = IF upscaledAndBacked THEN Dst.bufferWidth ELSE Dst.renderWidth
                  /\ views[j].h = IF upscaledAndBacked THEN Dst.bufferHeight ELSE Dst.renderHeight

(* C10, amended: the temporary target and the blit are used iff the GPU    *)
(* supports framebuffer blits, the storage width differs from the render   *)
(* width and the target has a backing render target.  Then the target      *)
(* bound for drawing is the temporary one, the viewport and the blit       *)
(* source rectangle have the storage size and the blit goes to the         *)
(* destination at render size; otherwise the draws go to the destination   *)
(* at render size and there is no blit.                                    *)
C10_BlitIffSupportedUpscaledAndBacked ==
    lastCall.path = "draw" =>
        LET binds == SelectSeq(cmds, LAMBDA c : c.op = "BindFramebufferAsRenderTarget")
            views == SelectSeq(cmds, LAMBDA c : c.op = "glViewport")
            blits == SelectSeq(cmds, LAMBDA c : c.op = "BlitFramebuffer")
        IN  /\ lastCall.useBlit <=>
                 (supportsBlit /\ Dst.bufferWidth # Dst.renderWidth /\ Dst.fbo # NULL)
            /\ Len(views) = 1
            /\ lastCall.useBlit =>
                 /\ binds = <<[op |-> "BindFramebufferAsRenderTarget", fbo |-> "temp"]>>
                 /\ views[1].w = Dst.bufferWidth /\ views[1].h = Dst.bufferHeight
                 /\ Len(blits) = 1
                 /\ blits[1].src = "temp"
                 /\ blits[1].sw = Dst.bufferWidth /\ blits[1].sh = Dst.bufferHeight
                 /\ blits[1].dst = Dst.fbo
                 /\ blits[1].dw = Dst.renderWidth /\ blits[1].dh = Dst.renderHeight
            /\ ~lastCall.useBlit =>
                 /\ blits = <<>>
                 /\ views[1].w = Dst.renderWidth /\ views[1].h = Dst.renderHeight
                 /\ \A j \in DOMAIN binds : binds[j].fbo = Dst.fbo
                 /\ Dst.fbo # NULL => Len(binds) = 1

\* An upscaled, backed target uploaded through the temporary target.
C10_Witness ==
    /\ lastCall.path = "draw"
    /\ lastCall.useBlit
    /\ supportsBlit
    /\ Dst.renderWidth = 2 * Dst.bufferWidth
    /\ Has(cmds, "BlitFramebuffer")

----------------------------------------------------------------------------
(* C9: on the draw path the commands come in this order: the shader is     *)
(* bound (whenever one exists), then the target (whenever the destination  *)
(* has one or the temporary one is used), then the stencil plane is        *)
(* cleared, then the planes are drawn.  There is one draw per bit set in   *)
(* usedBits, in ascending order of the planes 1, 2, 4, ... below the       *)
(* format's value count, none for a clear bit: as many draws as usedBits   *)
(* has bits set, at most 8, 4 for 4444, 1 for 5551.  Each draw runs under  *)
(* the write mask of its plane: i, (i << 4) | i, or 0xFF for 5551.         *)
C9_CommandOrderAndPlaneDraws ==
    lastCall.path = "draw" =>
        LET ops == Ops(cmds)
            at(op) == {j \in DOMAIN ops : ops[j] = op}
            before(a, b) == \A j \in at(a), k \in at(b) : j < k
            d == Draws(cmds)
            format == Dst.format
            usedBits == lastCall.usedBits
        IN  /\ stencilUploadProgram_ # NULL => Cardinality(at("glsl_bind")) = 1
            /\ (Dst.fbo # NULL \/ lastCall.useBlit) =>
                  Cardinality(at("BindFramebufferAsRenderTarget")) = 1
            /\ Cardinality(at("glClear")) = 1
            /\ \A j \in at("glClear") : cmds[j].bits = "STENCIL"
            /\ before("glsl_bind", "BindFramebufferAsRenderTarget")
            /\ before("glsl_bind", "glClear")
            /\ before("BindFramebufferAsRenderTarget", "glClear")
            /\ before("glClear", "DrawActiveTexture")
            /\ Len(d) = PopCount(usedBits)
            /\ Len(d) <= (CASE format = GE_FORMAT_5551 -> 1
                            [] format = GE_FORMAT_4444 -> 4
                            [] OTHER -> 8)
            /\ \A j \in DOMAIN d :
                  /\ \E k \in 0..7 : d[j].plane = Pow2(k) /\ Bit(usedBits, k)
                  /\ d[j].plane < ValueCount(format)
                  /\ d[j].stencilMask =
                        (CASE format = GE_FORMAT_5551 -> 255
                           [] format = GE_FORMAT_4444 -> d[j].plane * 16 + d[j].plane
                           [] OTHER -> d[j].plane)
            /\ \A j, k \in DOMAIN d : j < k => d[j].plane < d[k].plane

\* An 8888 upload with usedBits 0xA5: four planes drawn, four skipped, after
\* the shader and the target were bound.
C9_Witness ==
    /\ lastCall.path = "draw"
    /\ Dst.format = GE_FORMAT_8888
    /\ lastCall.usedBits = 165
    /\ Has(cmds, "glsl_bind")
    /\ Has(cmds, "BindFramebufferAsRenderTarget")
    /\ [j \in 1..4 |-> Draws(cmds)[j].plane] = <<1, 4, 32, 128>>

----------------------------------------------------------------------------
(* C3: a call that returns false has changed nothing: not the GL state     *)
(* (color mask, scissor, stencil state), not the bound program, not the    *)
(* bound render target, not the shader object, not a stencil or color byte *)
(* of any target, and it has issued no command (no viewport either).  And  *)
(* the call returns false whenever no tracked framebuffer matches the      *)
(* address, the memory pointer is not resolvable, the matched target is    *)
(* 565 whatever the memory holds, or the source is all zero and skipZero   *)
(* is set.                                                                 *)
ReturnsFalseCase(addr, skipZero) ==
    \/ ~MayIntersectFramebuffer(addr)
    \/ FindDstBuffer(addr) = 0
    \/ ~GetPointerValid(addr)
    \/ vfbs_[FindDstBuffer(addr)].format = GE_FORMAT_565
    \/ (skipZero /\ \A j \in DOMAIN mem : mem[j] = 0)

C3_FalseMeansNoOp ==
    [][/\ (lastCall'.path # "none" /\ ~lastCall'.ret) =>
             /\ cmds' = <<>>
             /\ UNCHANGED <<glstate, curProgram, boundFbo, stencilUploadProgram_, surfaces>>
       /\ \A addr \in Addresses, skipZero \in BOOLEAN, compileOk \in BOOLEAN :
             (ReturnsFalseCase(addr, skipZero) /\ NotifyStencilUpload(addr, skipZero, compileOk))
                => (lastCall'.path # "none" /\ ~lastCall'.ret)]_vars

\* A skipZero call on all-zero memory has returned false over a target the
\* game had drawn to, its draw state and program still in place.
C3_Witness ==
    /\ lastCall.path = "skip zero"
    /\ ~lastCall.ret
    /\ glstate = MaskedGameState
    /\ curProgram = "draw2dprogram"
    /\ \A p \in DOMAIN DstStencil(surfaces) : DstStencil(surfaces)[p] = 255

----------------------------------------------------------------------------
(* C4 as stated: a call on all-zero memory with skipZero = false returns   *)
(* true and leaves the destination's stencil plane and alpha channel zero  *)
(* at every pixel, its RGB unchanged, whatever target was bound and        *)
(* whatever the stencil write mask was; no shader is compiled or bound and *)
(* nothing is drawn.                                                       *)
C4_ZeroSourceClearsDestination ==
    [][lastCall'.path = "clear" =>
          /\ lastCall'.ret
          /\ \A p \in DOMAIN DstStencil(surfaces') :
                DstStencil(surfaces')[p] = 0 /\ DstAlpha(surfaces')[p] = 0
          /\ DstRgb(surfaces') = DstRgb(surfaces)
          /\ UNCHANGED <<stencilUploadProgram_, curProgram>>
          /\ ~Has(cmds', "glsl_create_source") /\ ~Has(cmds', "glsl_bind")
          /\ ~Has(cmds', "DrawActiveTexture")]_vars

----------------------------------------------------------------------------
(* C5 as stated: a draw-path call that ends without a reconstruction       *)
(* shader (compilation failed in it) does nothing: no clear, no draw, no   *)
(* blit, no stencil byte changed.                                          *)
C5_NoShaderNoEffect ==
    [][(lastCall'.path = "draw" /\ stencilUploadProgram_' = NULL) =>
          /\ ~Has(cmds', "glClear")
          /\ ~Has(cmds', "DrawActiveTexture")
          /\ ~Has(cmds', "BlitFramebuffer")
          /\ \A t \in DOMAIN surfaces : surfaces'[t].stencil = surfaces[t].stencil]_vars

----------------------------------------------------------------------------
(* C6: both strategies leave the same stencil contents.  After a draw-path *)
(* call on a target upscaled by k the stencil byte at every render pixel   *)
(* (x, y) is the one the plane draws compute at storage pixel              *)
(* (x div k, y div k); on the blit strategy the temporary target holds     *)
(* exactly those storage-resolution values and the blit leaves the         *)
(* destination's alpha and RGB as they were.                               *)
StorageDrawStencil(dstBuffer, src, program, usedBits) ==
    PlaneLoop(dstBuffer, src, program, usedBits, ValueCount(dstBuffer.format),
              dstBuffer.bufferWidth, dstBuffer.bufferHeight, 1,
              [s |-> NewSurface(dstBuffer.bufferWidth, dstBuffer.bufferHeight),
               gl |-> [DrawPathState(DefaultGLState) EXCEPT !.stencilRef = 255],
               log |-> <<>>]).s.stencil

C6_BlitEqualsDirect ==
    [][lastCall'.path = "draw" =>
          LET storage == StorageDrawStencil(Dst, mem, lastCall'.program, lastCall'.usedBits)
          IN  /\ \A p \in DOMAIN DstStencil(surfaces') :
                    DstStencil(surfaces')[p] = storage[StoragePixelOf(p)]
              /\ lastCall'.useBlit =>
                    /\ surfaces'["temp"].stencil = storage
                    /\ DstAlpha(surfaces') = DstAlpha(surfaces)
                    /\ DstRgb(surfaces') = DstRgb(surfaces)]_vars

\* A 2x target filled through the blit with a stencil plane that is not
\* uniform, over alpha the game had drawn.
C6_Witness ==
    /\ lastCall.path = "draw"
    /\ lastCall.useBlit
    /\ lastCall.program = "stencilUploadProgram"
    /\ Dst.renderWidth = 2 * Dst.bufferWidth
    /\ \E p, q \in DOMAIN DstStencil(surfaces) :
          /\ StoragePixelOf(p) # StoragePixelOf(q)
          /\ DstStencil(surfaces)[p] # DstStencil(surfaces)[q]
          /\ DstStencil(surfaces)[p] # 0
          /\ DstStencil(surfaces)[q] # 0
    /\ \A p \in DOMAIN DstAlpha(surfaces) : DstAlpha(surfaces)[p] = 255

----------------------------------------------------------------------------
(* C7 as stated: a second call right after a first one on the same path,   *)
(* the memory unchanged, leaves the destination's stencil plane as the     *)
(* first call left it.                                                     *)
C7_SecondUploadSameStencil ==
    [][(lastCall.path # "none" /\ lastCall'.path = lastCall.path) =>
          DstStencil(surfaces') = DstStencil(surfaces)]_vars

----------------------------------------------------------------------------
(* C1 as stated: after a draw-path call every pixel's stencil byte is the  *)
(* stencil bits of the source pixel under it, expanded to 8 bits: the      *)
(* alpha byte, the nibble n as (n << 4) | n, 0xFF or 0x00 for bit 15.      *)
C1_StencilBitExact ==
    lastCall.path = "draw" =>
        \A p \in DOMAIN DstStencil(surfaces) :
            DstStencil(surfaces)[p] =
                ExpandTo8(Dst.format, StencilField(Dst.format, SrcPixelUnder(p)))

\* The same with the reconstruction shader bound: what the code achieves.
StencilBitExactWithShader ==
    (lastCall.path = "draw" /\ lastCall.program = "stencilUploadProgram") =>
        \A p \in DOMAIN DstStencil(surfaces) :
            DstStencil(surfaces)[p] =
                ExpandTo8(Dst.format, StencilField(Dst.format, SrcPixelUnder(p)))

\* stencil_fs on every stored value of every format and every plane: the
\* fragment is kept exactly when the plane's bit is set in the value.
StencilFsExact ==
    \A format \in {GE_FORMAT_5551, GE_FORMAT_4444, GE_FORMAT_8888} :
        \A v \in 0..(ValueCount(format) - 1), k \in 0..7 :
            Pow2(k) < ValueCount(format) =>
                (StencilFsKeeps(ExpandTo8(format, v), StencilValue(format, Pow2(k)))
                    <=> Bit(v, k))

====
